---- MODULE Spec2Model ----
(***************************************************************************)
(* Session-scoped MCP agent (MyMCP, dynamic Supabase variant) of           *)
(* cf-remote-mcp-server: one durable actor per session holding             *)
(* MyMCPState, three registered tools (configure_supabase_instance, add,   *)
(* list_tables) and a per-call Supabase client.                            *)
(*                                                                         *)
(* JavaScript strings are modelled as sequences of one-character strings,  *)
(* so that "" is <<>>, template literals are \o, and the URL check of the  *)
(* configure schema works on the characters.  An optional field is a       *)
(* record [some, v]; None is JavaScript's undefined.                       *)
(***************************************************************************)
EXTENDS Integers, Sequences, FiniteSets, TLC

\* ------------------------------------------------------------------ bounds
\* Total number of tool calls (completed or in flight) over all sessions.
MaxCalls == 3

Sessions == {"s1", "s2"}

\* ------------------------------------------------------------ JS values
None == [some |-> FALSE, v |-> <<>>]
Some(s) == [some |-> TRUE, v |-> s]

\* JavaScript truthiness of an optional string: !x holds for undefined and "".
Falsy(o) == ~o.some \/ o.v = <<>>

Last(seq) == seq[Len(seq)]

\* ------------------------------------------------------ string literals
UrlX == <<"h", "t", "t", "p", "s", ":", "/", "/", "x">>
UrlY == <<"h", "t", "t", "p", "s", ":", "/", "/", "y">>
UrlNoHost == <<"h", "t", "t", "p", "s", ":", "/", "/">>
UrlNoScheme == <<"x", ".", "y">>
KeyK == <<"k">>
KeyJ == <<"j">>
KeyS == <<"s", "k">>

\* ------------------------------------------------- configure input schema
Alpha ==
  {"a", "b", "c", "d", "e", "f", "g", "h", "i", "j", "k", "l", "m",
   "n", "o", "p", "q", "r", "s", "t", "u", "v", "w", "x", "y", "z"}
Digit == {"0", "1", "2", "3", "4", "5", "6", "7", "8", "9"}
SchemeChars == Alpha \cup Digit \cup {"+", "-", "."}
SpecialSchemes ==
  {<<"h", "t", "t", "p">>, <<"h", "t", "t", "p", "s">>, <<"f", "t", "p">>,
   <<"w", "s">>, <<"w", "s", "s">>}

\* z.string().url(): the string parses as an absolute URL.  It needs a scheme
\* (a letter, then letters, digits, + - .) closed by the first ":", and a
\* special scheme (http, https, ...) needs a non-empty host after its slashes.
IsUrl(s) ==
  \E i \in 2..Len(s) :
    /\ s[i] = ":"
    /\ s[1] \in Alpha
    /\ \A j \in 2..(i - 1) : s[j] \in SchemeChars
    /\ (SubSeq(s, 1, i - 1) \in SpecialSchemes
          => \E j \in (i + 1)..Len(s) :
               /\ s[j] \notin {"/", "\\", "?", "#", ":"}
               /\ \A m \in (i + 1)..(j - 1) : s[m] \in {"/", "\\"})

\* configShape: supabaseUrl a URL string, supabaseAnonKey a string (any, also
\* ""), supabaseServiceKey an optional string.  The raw input carries each
\* field as an optional string; a missing required field fails the schema.
configShapeNoUrlCheck(input) ==
  input.supabaseUrl.some /\ input.supabaseAnonKey.some

configShape(input) ==
  /\ input.supabaseUrl.some
  /\ IsUrl(input.supabaseUrl.v)
  /\ input.supabaseAnonKey.some

CfgInput(u, k, sk) ==
  [supabaseUrl |-> u, supabaseAnonKey |-> k, supabaseServiceKey |-> sk]

\* The raw inputs a client sends to configure_supabase_instance.
ConfigureInputs ==
  { CfgInput(Some(UrlX), Some(KeyK), Some(KeyS)),
    CfgInput(Some(UrlY), Some(KeyJ), None),
    CfgInput(Some(UrlX), Some(<<>>), None),
    CfgInput(Some(<<>>), Some(KeyK), None),
    CfgInput(Some(UrlNoScheme), Some(KeyK), Some(KeyS)),
    CfgInput(Some(UrlNoHost), Some(KeyJ), None),
    CfgInput(Some(UrlY), None, None) }

\* --------------------------------------------------------- tool results
\* { content: [{ type: 'text', text }] } and, for a failure, the same with
\* _meta: { isError: true }.  A result has exactly one text payload.
Ok(text) == [isError |-> FALSE, text |-> text]
Failure(text) == [isError |-> TRUE, text |-> text]

\* ------------------------------------------------------- session state
\* MyMCPState: isConfigured and three optional strings.
initialStatePreconfigured ==
  [isConfigured |-> TRUE, supabaseUrl |-> Some(UrlX),
   supabaseAnonKey |-> Some(KeyK), supabaseServiceKey |-> None]

initialState ==
  [isConfigured |-> FALSE, supabaseUrl |-> None,
   supabaseAnonKey |-> None, supabaseServiceKey |-> None]

\* this.setState(next): the stored state becomes next, whole.
setStateMerge(cur, next) ==
  [isConfigured |-> next.isConfigured,
   supabaseUrl |-> IF next.supabaseUrl.some THEN next.supabaseUrl
                   ELSE cur.supabaseUrl,
   supabaseAnonKey |-> IF next.supabaseAnonKey.some THEN next.supabaseAnonKey
                       ELSE cur.supabaseAnonKey,
   supabaseServiceKey |-> IF next.supabaseServiceKey.some
                          THEN next.supabaseServiceKey
                          ELSE cur.supabaseServiceKey]

\* A store that writes field by field and loses the key when one is already
\* stored.
setStateTorn(cur, next) ==
  [next EXCEPT !.supabaseAnonKey = IF cur.supabaseAnonKey.some
                                   THEN cur.supabaseAnonKey
                                   ELSE next.supabaseAnonKey]

setState(cur, next) == next

\* this.state belongs to one actor: a handler of session s stores into the
\* state of s and of no other session.
persistProcessWide(all, s, next) == [t \in DOMAIN all |-> next]

persist(all, s, next) == [all EXCEPT ![s] = next]

\* ------------------------------------------- configure_supabase_instance
ConfiguredText == <<"Session configured for Supabase instance: ">>

\* The handler: store the four fields, answer with the URL.  It returns the
\* session state it leaves and its result.
configureHandlerKeepsKey(st, input) ==
  [state |-> setState(st, [isConfigured |-> TRUE,
                           supabaseUrl |-> input.supabaseUrl,
                           supabaseAnonKey |-> st.supabaseAnonKey,
                           supabaseServiceKey |-> input.supabaseServiceKey]),
   result |-> Ok(ConfiguredText \o input.supabaseUrl.v)]

configureHandler(st, input) ==
  [state |-> setState(st, [isConfigured |-> TRUE,
                           supabaseUrl |-> input.supabaseUrl,
                           supabaseAnonKey |-> input.supabaseAnonKey,
                           supabaseServiceKey |-> input.supabaseServiceKey]),
   result |-> Ok(ConfiguredText \o input.supabaseUrl.v)]

\* ------------------------------------------------------------------ add
DigitSeq == <<"0", "1", "2", "3", "4", "5", "6", "7", "8", "9">>

RECURSIVE NatToString(_)
NatToString(n) ==
  IF n < 10 THEN <<DigitSeq[n + 1]>>
  ELSE NatToString(n \div 10) \o <<DigitSeq[(n % 10) + 1]>>

\* String(n) for an integer n: its decimal digits, "-" first when negative.
NumberToString(n) ==
  IF n < 0 THEN <<"-">> \o NatToString(-n) ELSE NatToString(n)

AddInputs == {[a |-> x, b |-> y] : x \in {-12, 2}, y \in {-7, 8}}

addHandlerSubtracts(st, input) ==
  [state |-> st, result |-> Ok(NumberToString(input.a - input.b))]

addHandlerMarksState(st, input) ==
  [state |-> [st EXCEPT !.isConfigured = FALSE],
   result |-> Ok(NumberToString(input.a + input.b))]

addHandler(st, input) ==
  [state |-> st, result |-> Ok(NumberToString(input.a + input.b))]

\* ------------------------------------------------------ Supabase client
ClientRequiredText ==
  <<"Supabase URL and Anon Key are required to create a client.">>

\* No client handle (the module-level variable before its first assignment).
NoClient ==
  [threw |-> FALSE, message |-> <<>>, supabaseUrl |-> <<>>,
   supabaseKey |-> <<>>]

\* createSupabaseClient(url, key): throws when either is falsy, else a new
\* handle holding exactly the two arguments.  Nothing is remembered.
createSupabaseClientSwapped(supabaseUrl, supabaseAnonKey) ==
  IF Falsy(supabaseUrl) \/ Falsy(supabaseAnonKey)
  THEN [threw |-> TRUE, message |-> ClientRequiredText,
        supabaseUrl |-> <<>>, supabaseKey |-> <<>>]
  ELSE [threw |-> FALSE, message |-> <<>>,
        supabaseUrl |-> supabaseAnonKey.v, supabaseKey |-> supabaseUrl.v]

createSupabaseClient(supabaseUrl, supabaseAnonKey) ==
  IF Falsy(supabaseUrl) \/ Falsy(supabaseAnonKey)
  THEN [threw |-> TRUE, message |-> ClientRequiredText,
        supabaseUrl |-> <<>>, supabaseKey |-> <<>>]
  ELSE [threw |-> FALSE, message |-> <<>>,
        supabaseUrl |-> supabaseUrl.v, supabaseKey |-> supabaseAnonKey.v]

\* ---------------------------------------------------- backend responses
\* A JavaScript value of the backend's data: its type tag and, for a string
\* or a number, its characters.
JsString(s) == [t |-> "string", v |-> s]
JsNumber(s) == [t |-> "number", v |-> s]
JsNull == [t |-> "null", v |-> <<>>]
JsUndefined == [t |-> "undefined", v |-> <<>>]

\* A record of the returned data; owner stands for a key the schema does not
\* know (JsUndefined when the record has no such key).
Row(schema, name, comment, owner) ==
  [schema |-> schema, name |-> name, comment |-> comment, owner |-> owner]

NotAnArray == [isArray |-> FALSE, rows |-> <<>>]
Rows(rows) == [isArray |-> TRUE, rows |-> rows]

ValidData ==
  Rows(<<Row(JsString(<<"public">>), JsString(<<"t">>), JsNull, JsUndefined),
         Row(JsString(<<"app">>), JsString(<<"u">>),
             JsString(<<"c", "\"", "d">>), JsUndefined)>>)
InvalidData ==
  Rows(<<Row(JsString(<<"public">>), JsNumber(<<"7">>), JsNull, JsUndefined)>>)
\* A record without a comment key, and one with a key the schema does not know.
NoCommentData ==
  Rows(<<Row(JsString(<<"public">>), JsString(<<"t">>), JsUndefined,
             JsUndefined)>>)
ExtraKeyData ==
  Rows(<<Row(JsString(<<"app">>), JsString(<<"u">>), JsNull,
             JsString(<<"o">>))>>)

\* What awaiting supabase.rpc(...) yields: a rejection (threw, with the
\* exception's message) or { data, error }.
RpcResult(threw, message, error, data) ==
  [threw |-> threw, message |-> message, error |-> error, data |-> data]

RpcOutcomes ==
  { RpcResult(TRUE, <<"fetch failed">>, None, NotAnArray),
    RpcResult(FALSE, <<>>, Some(<<"permission denied">>), NotAnArray),
    RpcResult(FALSE, <<>>, Some(<<"permission denied">>), ValidData),
    RpcResult(FALSE, <<>>, None, ValidData),
    RpcResult(FALSE, <<>>, None, InvalidData),
    RpcResult(FALSE, <<>>, None, NoCommentData),
    RpcResult(FALSE, <<>>, None, ExtraKeyData),
    RpcResult(FALSE, <<>>, None, NotAnArray) }

\* ------------------------------------------------------------ list_tables
\* ListTablesOutputSchema.safeParse(data): an array of objects whose schema
\* and name are strings and whose comment is a string, null or missing.
\* The parsed value keeps only the three known keys.
RowMatches(r) ==
  /\ r.schema.t = "string"
  /\ r.name.t = "string"
  /\ r.comment.t \in {"string", "null", "undefined"}

safeParse(data) ==
  IF data.isArray /\ \A i \in DOMAIN data.rows : RowMatches(data.rows[i])
  THEN [success |-> TRUE,
        data |-> [i \in DOMAIN data.rows |->
                    [data.rows[i] EXCEPT !.owner = JsUndefined]]]
  ELSE [success |-> FALSE, data |-> <<>>]

\* JSON.stringify(value, null, 2) of a string, of null and of one record.
\* Inside a string a quote becomes \" and a backslash becomes \\ (one token
\* each).
RECURSIVE JsonEscape(_)
JsonEscape(str) ==
  IF str = <<>> THEN <<>>
  ELSE (IF Head(str) = "\"" THEN <<"\\\"">>
        ELSE IF Head(str) = "\\" THEN <<"\\\\">>
        ELSE <<Head(str)>>) \o JsonEscape(Tail(str))

JsonValue(x) ==
  IF x.t = "null" THEN <<"null">>
  ELSE <<"\"">> \o JsonEscape(x.v) \o <<"\"">>

JsonMember(key, x) == <<"\n    ", "\"", key, "\"", ":", " ">> \o JsonValue(x)

JsonRowDropsNull(r) ==
  <<"{">> \o JsonMember("schema", r.schema)
    \o <<",">> \o JsonMember("name", r.name)
    \o (IF r.comment.t \in {"undefined", "null"} THEN <<>>
        ELSE <<",">> \o JsonMember("comment", r.comment))
    \o <<"\n  ", "}">>

JsonRow(r) ==
  <<"{">> \o JsonMember("schema", r.schema)
    \o <<",">> \o JsonMember("name", r.name)
    \o (IF r.comment.t = "undefined" THEN <<>>
        ELSE <<",">> \o JsonMember("comment", r.comment))
    \o <<"\n  ", "}">>

RECURSIVE JsonRows(_)
JsonRows(rows) ==
  IF Len(rows) = 1 THEN <<"\n  ">> \o JsonRow(rows[1])
  ELSE JsonRows(SubSeq(rows, 1, Len(rows) - 1))
         \o <<",", "\n  ">> \o JsonRow(rows[Len(rows)])

JSONstringify(rows) ==
  IF rows = <<>> THEN <<"[", "]">>
  ELSE <<"[">> \o JsonRows(rows) \o <<"\n", "]">>

NotConfiguredText ==
  <<"Error: Supabase instance not configured for this session. Please call 'configure_supabase_instance' first.">>

\* The guard of the handler: !isConfigured || !supabaseUrl || !supabaseAnonKey.
NotConfigured(st) ==
  ~st.isConfigured \/ Falsy(st.supabaseUrl) \/ Falsy(st.supabaseAnonKey)

\* The handler up to its await: it answers at once when the session is not
\* configured, else builds a client from the session state and sends the
\* query (kind "rpc").  A throw of createSupabaseClient is outside the try.
listTablesBegin(st) ==
  IF NotConfigured(st)
  THEN [kind |-> "return", result |-> Failure(NotConfiguredText),
        client |-> createSupabaseClient(None, None)]
  ELSE LET supabase == createSupabaseClient(st.supabaseUrl, st.supabaseAnonKey)
       IN  IF supabase.threw
           THEN [kind |-> "throw", result |-> Failure(supabase.message),
                 client |-> supabase]
           ELSE [kind |-> "rpc", result |-> Ok(<<>>), client |-> supabase]

ParseFailureText == <<"Failed to parse list_tables output.">>

\* The handler after its await: the exception, the backend's error (looked at
\* before the data), the parse failure or the serialized rows.
listTablesResultUnvalidated(outcome) ==
  IF outcome.threw THEN Failure(<<"Exception: ">> \o outcome.message)
  ELSE IF outcome.error.some
  THEN Failure(<<"Failed to list tables: ">> \o outcome.error.v)
  ELSE Ok(JSONstringify(outcome.data.rows))

listTablesResultParsesFirst(outcome) ==
  IF outcome.threw THEN Failure(<<"Exception: ">> \o outcome.message)
  ELSE LET parseResult == safeParse(outcome.data)
       IN  IF ~parseResult.success THEN Failure(ParseFailureText)
           ELSE IF outcome.error.some
           THEN Failure(<<"Failed to list tables: ">> \o outcome.error.v)
           ELSE Ok(JSONstringify(parseResult.data))

listTablesResultSwallowsException(outcome) ==
  IF outcome.threw THEN Ok(JSONstringify(<<>>))
  ELSE IF outcome.error.some
  THEN Failure(<<"Failed to list tables: ">> \o outcome.error.v)
  ELSE LET parseResult == safeParse(outcome.data)
       IN  IF ~parseResult.success THEN Failure(ParseFailureText)
           ELSE Ok(JSONstringify(parseResult.data))

listTablesResult(outcome) ==
  IF outcome.threw THEN Failure(<<"Exception: ">> \o outcome.message)
  ELSE IF outcome.error.some
  THEN Failure(<<"Failed to list tables: ">> \o outcome.error.v)
  ELSE LET parseResult == safeParse(outcome.data)
       IN  IF ~parseResult.success
           THEN Failure(ParseFailureText)
           ELSE Ok(JSONstringify(parseResult.data))

\* It leaves the session state alone.
listTablesEndForgets(st, outcome) ==
  [state |-> IF outcome.threw \/ outcome.error.some THEN initialState ELSE st,
   result |-> listTablesResult(outcome)]

\* A resume that tests the guard again, on the state as it is by then.
listTablesEndRechecksState(st, outcome) ==
  [state |-> st,
   result |-> IF NotConfigured(st) THEN Failure(NotConfiguredText)
              ELSE listTablesResult(outcome)]

listTablesEnd(st, outcome) ==
  [state |-> st, result |-> listTablesResult(outcome)]

\* ------------------------------------------------------------- dispatch
ConfigureTool == "configure_supabase_instance"
AddTool == "add"
ListTablesTool == "list_tables"

\* Names a client may send that init registers under no circumstances.
UnregisteredNames == {"drop_table"}

\* this.server.tool(name, ...) inside a register method: a no-op without a
\* server object, else one more registry entry.
registerTool(reg, hasServer, name) ==
  IF ~hasServer THEN reg ELSE Append(reg, name)

\* An init() that calls registerDemoAddTool twice.
initRegistryAddsTwice(reg, hasServer) ==
  IF ~hasServer THEN reg
  ELSE registerTool(
         registerTool(
           registerTool(registerTool(reg, hasServer, ConfigureTool),
                        hasServer, AddTool),
           hasServer, AddTool),
         hasServer, ListTablesTool)

\* init(): without a server object nothing is registered; else the three
\* tools, in this order.
initRegistry(reg, hasServer) ==
  IF ~hasServer THEN reg
  ELSE registerTool(
         registerTool(registerTool(reg, hasServer, ConfigureTool),
                      hasServer, AddTool),
         hasServer, ListTablesTool)

IsRegistered(reg, name) == \E i \in DOMAIN reg : reg[i] = name

\* The protocol server's routing of a tool call: an unregistered name and an
\* input that fails the tool's schema end the call before any handler runs.
dispatchThrowsOnUnknown(reg, name, valid) ==
  IF ~IsRegistered(reg, name) THEN "throw"
  ELSE IF ~valid THEN "InvalidInput"
  ELSE "handler"

dispatch(reg, name, valid) ==
  IF ~IsRegistered(reg, name) THEN "UnknownTool"
  ELSE IF ~valid THEN "InvalidInput"
  ELSE "handler"

UnknownToolResult(name) == Failure(<<"Tool ", name, " not found">>)
InvalidInputResult(name) == Failure(<<"Invalid arguments for tool ", name>>)

\* The result of a call that did not reach its handler.
Rejected(d, name) ==
  IF d = "InvalidInput" THEN InvalidInputResult(name)
  ELSE UnknownToolResult(name)

\* -------------------------------------------------------------- variables
VARIABLES
  server,    \* per session: whether this.server holds the protocol server
  status,    \* per session: "Uninitialized", then "Ready" (or "Degraded")
  registry,  \* per session: the registered tool names, in registration order
  state,     \* per session: this.state, a MyMCPState
  queries,   \* every query the backend has received: who sent it, with what
  pending,   \* indices of queries whose list_tables call awaits the answer
  answers,   \* what the backend answered, per answered query
  calls,     \* every completed tool call, in order of completion
  supabase,  \* environment variant: the module-level client of supabase.ts
  envLog     \* environment variant: every getSupabaseClient call, in order

envVars == <<supabase, envLog>>

vars ==
  <<server, status, registry, state, queries, pending, answers, calls,
    supabase, envLog>>

\* The shape of the state: MyMCPState per session, the actor's lifecycle, the
\* in-flight queries among the sent ones.
TypeOK ==
  /\ server \in [Sessions -> BOOLEAN]
  /\ status \in [Sessions -> {"Uninitialized", "Ready", "Degraded"}]
  /\ \A s \in Sessions :
       /\ state[s].isConfigured \in BOOLEAN
       /\ \A f \in {"supabaseUrl", "supabaseAnonKey", "supabaseServiceKey"} :
            state[s][f].some \in BOOLEAN
       /\ \A i \in DOMAIN registry[s] :
            registry[s][i] \in {ConfigureTool, AddTool, ListTablesTool}
  /\ pending \subseteq DOMAIN queries
  /\ DOMAIN answers = DOMAIN queries \ pending
  /\ \A q \in DOMAIN queries : queries[q].session \in Sessions
  /\ \A i \in DOMAIN calls : calls[i].session \in Sessions

NoInput == [none |-> TRUE]

Call(s, name, input, threw, result) ==
  [session |-> s, name |-> name, input |-> input, threw |-> threw,
   result |-> result]

Respond(s, name, input, threw, result) ==
  calls' = Append(calls, Call(s, name, input, threw, result))

Room == Len(calls) + Cardinality(pending) < MaxCalls

\* The constructor: a server object, the initial state, an empty registry.
Init ==
  /\ server = [s \in Sessions |-> TRUE]
  /\ status = [s \in Sessions |-> "Uninitialized"]
  /\ registry = [s \in Sessions |-> <<>>]
  /\ state = [s \in Sessions |-> initialState]
  /\ queries = <<>>
  /\ pending = {}
  /\ answers = <<>>
  /\ calls = <<>>
  /\ supabase = NoClient
  /\ envLog = <<>>

\* init(): runs once per actor, before the actor takes tool calls.
ActorInit(s) ==
  /\ status[s] = "Uninitialized"
  /\ registry' = [registry EXCEPT ![s] = initRegistry(registry[s], server[s])]
  /\ status' = [status EXCEPT ![s] = IF server[s] THEN "Ready" ELSE "Degraded"]
  /\ UNCHANGED <<server, state, queries, pending, answers, calls>>

\* A configure_supabase_instance call, from routing to the handler's return.
\* The handler's only await is on the value of this.setState(...), a store
\* that has already happened; what follows builds the result from the input
\* alone.  The call is therefore one step, taken at its state update.
CallConfigure(s, input) ==
  /\ status[s] = "Ready"
  /\ Room
  /\ LET d == dispatch(registry[s], ConfigureTool, configShape(input))
         h == configureHandler(state[s], input)
     IN  IF d = "handler"
         THEN /\ state' = persist(state, s, h.state)
              /\ Respond(s, ConfigureTool, input, FALSE, h.result)
         ELSE /\ UNCHANGED state
              /\ Respond(s, ConfigureTool, input, d = "throw",
                         Rejected(d, ConfigureTool))
  /\ UNCHANGED <<server, status, registry, queries, pending, answers>>

\* An add call.
CallAdd(s, input) ==
  /\ status[s] = "Ready"
  /\ Room
  /\ LET d == dispatch(registry[s], AddTool, TRUE)
         h == addHandler(state[s], input)
     IN  IF d = "handler"
         THEN /\ state' = persist(state, s, h.state)
              /\ Respond(s, AddTool, input, FALSE, h.result)
         ELSE /\ UNCHANGED state
              /\ Respond(s, AddTool, input, d = "throw", Rejected(d, AddTool))
  /\ UNCHANGED <<server, status, registry, queries, pending, answers>>

\* A list_tables call up to its await: it ends at once (not registered, not
\* configured, client construction threw) or sends its query and suspends.
CallListTables(s) ==
  /\ status[s] = "Ready"
  /\ Room
  /\ LET d == dispatch(registry[s], ListTablesTool, TRUE)
         b == listTablesBegin(state[s])
     IN  IF d = "handler" /\ b.kind = "rpc"
         THEN /\ queries' = Append(queries,
                              [session |-> s,
                               supabaseUrl |-> b.client.supabaseUrl,
                               supabaseKey |-> b.client.supabaseKey])
              /\ pending' = pending \cup {Len(queries) + 1}
              /\ UNCHANGED calls
         ELSE /\ UNCHANGED <<queries, pending>>
              /\ IF d = "handler"
                 THEN Respond(s, ListTablesTool, NoInput, FALSE, b.result)
                 ELSE Respond(s, ListTablesTool, NoInput, d = "throw",
                              Rejected(d, ListTablesTool))
  /\ UNCHANGED <<server, status, registry, state, answers>>

\* A resume that sends the query again after a failed answer.
ListTablesResumeRetries(q, outcome) ==
  /\ q \in pending
  /\ IF (outcome.threw \/ outcome.error.some) /\ Len(queries) < MaxCalls
     THEN /\ queries' = Append(queries, queries[q])
          /\ pending' = (pending \ {q}) \cup {Len(queries) + 1}
          /\ UNCHANGED <<state, calls>>
     ELSE /\ LET s == queries[q].session
                 h == listTablesEnd(state[s], outcome)
             IN  /\ state' = persist(state, s, h.state)
                 /\ Respond(s, ListTablesTool, NoInput, FALSE, h.result)
          /\ pending' = pending \ {q}
          /\ UNCHANGED queries
  /\ answers' = [a \in DOMAIN answers \cup {q} |->
                   IF a = q THEN outcome ELSE answers[a]]
  /\ UNCHANGED <<server, status, registry>>

\* The backend answers query q; the suspended list_tables call resumes with
\* the answer and returns.
ListTablesResume(q, outcome) ==
  /\ q \in pending
  /\ LET s == queries[q].session
         h == listTablesEnd(state[s], outcome)
     IN  /\ state' = persist(state, s, h.state)
         /\ Respond(s, ListTablesTool, NoInput, FALSE, h.result)
  /\ pending' = pending \ {q}
  /\ answers' = [a \in DOMAIN answers \cup {q} |->
                   IF a = q THEN outcome ELSE answers[a]]
  /\ UNCHANGED <<server, status, registry, queries>>

\* A call of a name that no tool was registered under.
CallUnregistered(s, name) ==
  /\ status[s] = "Ready"
  /\ Room
  /\ LET d == dispatch(registry[s], name, TRUE)
     IN  Respond(s, name, NoInput, d # "UnknownTool", Rejected(d, name))
  /\ UNCHANGED <<server, status, registry, state, queries, pending, answers>>

\* The session-scoped agent never touches the module-level client.
Next ==
  \/ \E s \in Sessions : ActorInit(s) /\ UNCHANGED envVars
  \/ \E s \in Sessions, input \in ConfigureInputs :
       CallConfigure(s, input) /\ UNCHANGED envVars
  \/ \E s \in Sessions, input \in AddInputs :
       CallAdd(s, input) /\ UNCHANGED envVars
  \/ \E s \in Sessions : CallListTables(s) /\ UNCHANGED envVars
  \/ \E q \in DOMAIN queries, outcome \in RpcOutcomes :
       ListTablesResume(q, outcome) /\ UNCHANGED envVars
  \/ \E s \in Sessions, name \in UnregisteredNames :
       CallUnregistered(s, name) /\ UNCHANGED envVars

Spec == Init /\ [][Next]_vars

\* ------------------------------------------- the environment variant
\* The agent that takes its credentials from the worker environment and
\* keeps its client in the module-level variable supabase.
EnvRequiredText ==
  <<"Supabase URL and Anon Key are required in environment.">>

EnvClientMissingText == <<"Error: Supabase client not available.">>

\* Calls of the environment variant, completed or suspended, that a behaviour
\* may hold.
MaxEnvCalls == 2

EnvRoom == Len(calls) + Cardinality(pending) < MaxEnvCalls

\* An environment: its SUPABASE_URL and SUPABASE_ANON_KEY bindings.
Env(url, key) == [SUPABASE_URL |-> url, SUPABASE_ANON_KEY |-> key]

\* Two complete environments with different credentials, one without a URL
\* and one with an empty key.
Envs ==
  { Env(Some(UrlX), Some(KeyK)), Env(Some(UrlY), Some(KeyJ)),
    Env(None, Some(KeyK)), Env(Some(UrlX), Some(<<>>)) }

\* The add input and the backend answers (an exception, an error, a valid
\* listing) that the environment variant is run with.
EnvAddInputs == {[a |-> 2, b |-> 8]}

EnvRpcOutcomes ==
  { RpcResult(TRUE, <<"fetch failed">>, None, NotAnArray),
    RpcResult(FALSE, <<>>, Some(<<"permission denied">>), NotAnArray),
    RpcResult(FALSE, <<>>, None, ValidData) }

\* createClient(url, key) of the client library: a new handle.
createClient(url, key) ==
  [threw |-> FALSE, message |-> <<>>, supabaseUrl |-> url, supabaseKey |-> key]

\* A factory that builds a client from its own environment at every call.
getSupabaseClientNoCache(cache, env) ==
  IF Falsy(env.SUPABASE_URL) \/ Falsy(env.SUPABASE_ANON_KEY)
  THEN [threw |-> TRUE, message |-> EnvRequiredText, client |-> NoClient,
        cache |-> cache]
  ELSE [threw |-> FALSE, message |-> <<>>,
        client |-> createClient(env.SUPABASE_URL.v, env.SUPABASE_ANON_KEY.v),
        cache |-> createClient(env.SUPABASE_URL.v, env.SUPABASE_ANON_KEY.v)]

\* getSupabaseClient(env), given the module-level variable: what it throws
\* or returns, and the variable afterwards.
getSupabaseClient(cache, env) ==
  IF cache = NoClient
  THEN IF Falsy(env.SUPABASE_URL) \/ Falsy(env.SUPABASE_ANON_KEY)
       THEN [threw |-> TRUE, message |-> EnvRequiredText, client |-> NoClient,
             cache |-> cache]
       ELSE [threw |-> FALSE, message |-> <<>>,
             client |-> createClient(env.SUPABASE_URL.v,
                                     env.SUPABASE_ANON_KEY.v),
             cache |-> createClient(env.SUPABASE_URL.v,
                                    env.SUPABASE_ANON_KEY.v)]
  ELSE [threw |-> FALSE, message |-> <<>>, client |-> cache, cache |-> cache]

\* One call of getSupabaseClient, as the log keeps it.
EnvCall(s, site, env, g) ==
  [session |-> s, site |-> site, env |-> env, threw |-> g.threw,
   client |-> g.client]

\* this.env of actor s: the environment its constructor was given, first
\* used by its init().
EnvOf(s) ==
  envLog[CHOOSE i \in DOMAIN envLog :
           envLog[i].session = s /\ envLog[i].site = "init"].env

\* init() of the environment variant: it asks for the client, swallows the
\* throw, and registers add and list_tables.
EnvActorInit(s, env) ==
  /\ status[s] = "Uninitialized"
  /\ LET g == getSupabaseClient(supabase, env)
     IN  /\ supabase' = g.cache
         /\ envLog' = Append(envLog, EnvCall(s, "init", env, g))
  /\ registry' = [registry EXCEPT ![s] =
                    registerTool(registerTool(registry[s], server[s], AddTool),
                                 server[s], ListTablesTool)]
  /\ status' = [status EXCEPT ![s] = IF server[s] THEN "Ready" ELSE "Degraded"]
  /\ UNCHANGED <<server, state, queries, pending, answers, calls>>

\* The add tool of the environment variant.
EnvCallAdd(s, input) ==
  /\ EnvRoom
  /\ CallAdd(s, input)
  /\ UNCHANGED envVars

\* list_tables of the environment variant up to its await: it asks for the
\* client outside its try, so a throw of the factory ends the call; else it
\* sends its query through the handle it was given.
EnvCallListTables(s) ==
  /\ status[s] = "Ready"
  /\ EnvRoom
  /\ dispatch(registry[s], ListTablesTool, TRUE) = "handler"
  /\ LET g == getSupabaseClient(supabase, EnvOf(s))
     IN  /\ supabase' = g.cache
         /\ envLog' = Append(envLog, EnvCall(s, "list_tables", EnvOf(s), g))
         /\ IF g.threw
            THEN /\ Respond(s, ListTablesTool, NoInput, FALSE,
                            Failure(g.message))
                 /\ UNCHANGED <<queries, pending>>
            ELSE IF g.client = NoClient
            THEN /\ Respond(s, ListTablesTool, NoInput, FALSE,
                            Failure(EnvClientMissingText))
                 /\ UNCHANGED <<queries, pending>>
            ELSE /\ queries' = Append(queries,
                                 [session |-> s,
                                  supabaseUrl |-> g.client.supabaseUrl,
                                  supabaseKey |-> g.client.supabaseKey])
                 /\ pending' = pending \cup {Len(queries) + 1}
                 /\ UNCHANGED calls
  /\ UNCHANGED <<server, status, registry, state, answers>>

\* The backend answers; the suspended call goes on as in the session
\* variant, from the error test to the catch.
EnvListTablesResume(q, outcome) ==
  /\ ListTablesResume(q, outcome)
  /\ UNCHANGED envVars

NextEnv ==
  \/ \E s \in Sessions, env \in Envs : EnvActorInit(s, env)
  \/ \E s \in Sessions, input \in EnvAddInputs : EnvCallAdd(s, input)
  \/ \E s \in Sessions : EnvCallListTables(s)
  \/ \E q \in DOMAIN queries, outcome \in EnvRpcOutcomes :
       EnvListTablesResume(q, outcome)

SpecEnv == Init /\ [][NextEnv]_vars

\* ================================================================ claims
\* Helpers over the log of completed calls.
IsCall(i, s, name) ==
  i \in DOMAIN calls /\ calls[i].session = s /\ calls[i].name = name

\* Call i is a configure call of session s whose input passes the schema.
ValidConfigure(i, s) ==
  IsCall(i, s, ConfigureTool) /\ configShape(calls[i].input)

\* The step completes a tool call.
CallCompletes == Len(calls') = Len(calls) + 1

\* The step sends a query to the backend.
QuerySent == Len(queries') = Len(queries) + 1

\* The session state that a schema-valid configure input asks for.
StateOf(input) ==
  [isConfigured |-> TRUE, supabaseUrl |-> input.supabaseUrl,
   supabaseAnonKey |-> input.supabaseAnonKey,
   supabaseServiceKey |-> input.supabaseServiceKey]

\* Parsing a decimal string back into the integer it denotes.
DigitValue(c) == CHOOSE d \in 0..9 : DigitSeq[d + 1] = c

RECURSIVE ParseNat(_)
ParseNat(str) ==
  IF Len(str) = 1 THEN DigitValue(str[1])
  ELSE 10 * ParseNat(SubSeq(str, 1, Len(str) - 1)) + DigitValue(str[Len(str)])

IsDecimal(str) ==
  LET digits == IF str # <<>> /\ str[1] = "-" THEN Tail(str) ELSE str
  IN  /\ digits # <<>>
      /\ \A i \in DOMAIN digits : digits[i] \in Digit
      /\ (Len(digits) > 1 => digits[1] # "0")

ParseDecimal(str) ==
  IF str[1] = "-" THEN -ParseNat(Tail(str)) ELSE ParseNat(str)

\* C1: as long as no configure call has been made in a session, every
\* list_tables call of that session has returned a Failure and the backend
\* has received no query from that session.
C1_NoBackendCallBeforeConfigure ==
  \A s \in Sessions :
    (\A i \in DOMAIN calls : ~IsCall(i, s, ConfigureTool))
      => /\ \A q \in DOMAIN queries : queries[q].session # s
         /\ \A i \in DOMAIN calls :
              IsCall(i, s, ListTablesTool)
                => calls[i].result.isError /\ ~calls[i].threw

C1_Witness ==
  \E s \in Sessions :
    /\ \A i \in DOMAIN calls : ~IsCall(i, s, ConfigureTool)
    /\ \E i \in DOMAIN calls :
         IsCall(i, s, ListTablesTool) /\ calls[i].result.isError
    /\ \A q \in DOMAIN queries : queries[q].session # s

\* C2: in every reachable state, a session whose isConfigured is true holds
\* a non-empty supabaseUrl and a non-empty supabaseAnonKey.
C2_ConfiguredImpliesNonEmptyCredentials ==
  \A s \in Sessions :
    state[s].isConfigured
      => ~Falsy(state[s].supabaseUrl) /\ ~Falsy(state[s].supabaseAnonKey)

\* C3: when the call completed last is a configure call with a schema-valid
\* input, it returned Ok and the session state is isConfigured with exactly
\* that input's URL and anon key.
C3_ConfigureSetsState ==
  calls # <<>> =>
    LET c == Last(calls)
    IN  (c.name = ConfigureTool /\ configShape(c.input))
          => /\ ~c.result.isError
             /\ state[c.session].isConfigured
             /\ state[c.session].supabaseUrl = c.input.supabaseUrl
             /\ state[c.session].supabaseAnonKey = c.input.supabaseAnonKey

\* A second valid configure call, on a session a first one had configured
\* otherwise, has just returned.
C3_Witness ==
  /\ Len(calls) >= 2
  /\ \E s \in Sessions :
       /\ ValidConfigure(1, s)
       /\ ValidConfigure(Len(calls), s)
       /\ calls[1].input.supabaseUrl # Last(calls).input.supabaseUrl
       /\ calls[1].input.supabaseAnonKey # Last(calls).input.supabaseAnonKey
       /\ state[s].supabaseUrl = Last(calls).input.supabaseUrl

\* C4: of two valid configure calls made one after the other on a session,
\* the second one alone decides the state: URL, anon key and service key are
\* the second call's, and the service key is absent when the second call
\* left it out, whatever the first call had supplied.
C4_SecondConfigureReplaces ==
  \A s \in Sessions :
    \A i \in DOMAIN calls, j \in DOMAIN calls :
      ( /\ i < j
        /\ ValidConfigure(i, s)
        /\ ValidConfigure(j, s)
        /\ \A m \in (j + 1)..Len(calls) : ~ValidConfigure(m, s) )
        => /\ state[s] = StateOf(calls[j].input)
           /\ (~calls[j].input.supabaseServiceKey.some
                 => ~state[s].supabaseServiceKey.some)

C4_Witness ==
  \E s \in Sessions :
    \E i \in DOMAIN calls, j \in DOMAIN calls :
      /\ i < j
      /\ ValidConfigure(i, s)
      /\ ValidConfigure(j, s)
      /\ \A m \in (j + 1)..Len(calls) : ~ValidConfigure(m, s)
      /\ calls[i].input.supabaseServiceKey.some
      /\ ~calls[j].input.supabaseServiceKey.some
      /\ ~state[s].supabaseServiceKey.some

\* The input of the configure call that last configured session s.
HasConfigure(s) == \E i \in DOMAIN calls : ValidConfigure(i, s)

LastConfigure(s) ==
  LET j == CHOOSE i \in DOMAIN calls :
             /\ ValidConfigure(i, s)
             /\ \A m \in (i + 1)..Len(calls) : ~ValidConfigure(m, s)
  IN  calls[j].input

\* C5: every query that a list_tables call sends goes out with the URL and
\* key of the configure call that completed last on its session before the
\* query was sent, never with those of an earlier configure call.
C5_QueryUsesCurrentCredentials ==
  [][QuerySent =>
       LET q == Last(queries')
       IN  /\ HasConfigure(q.session)
           /\ q.supabaseUrl = LastConfigure(q.session).supabaseUrl.v
           /\ q.supabaseKey = LastConfigure(q.session).supabaseAnonKey.v]_vars

\* A list_tables call is in flight with the second configure call's
\* credentials, which differ from the first one's.
C5_Witness ==
  \E s \in Sessions, q \in pending :
    /\ ValidConfigure(1, s)
    /\ ValidConfigure(2, s)
    /\ calls[1].input.supabaseUrl # calls[2].input.supabaseUrl
    /\ calls[1].input.supabaseAnonKey # calls[2].input.supabaseAnonKey
    /\ queries[q].session = s
    /\ queries[q].supabaseUrl = calls[2].input.supabaseUrl.v
    /\ queries[q].supabaseKey = calls[2].input.supabaseAnonKey.v

\* The session a step belongs to: the one whose call completed or whose
\* query went out.
StepOf(s) ==
  \/ CallCompletes /\ Last(calls').session = s
  \/ QuerySent /\ Last(queries').session = s

\* C6: a step of session s leaves the state of every other session as it
\* was, and a query sent by a session carries that session's own stored URL
\* and key.
C6_SessionsAreIsolated ==
  [][\A s \in Sessions :
       StepOf(s) =>
         /\ \A t \in Sessions \ {s} : state'[t] = state[t]
         /\ QuerySent =>
              /\ Last(queries').supabaseUrl = state[s].supabaseUrl.v
              /\ Last(queries').supabaseKey = state[s].supabaseAnonKey.v]_vars

\* One session is configured and has a query in flight with its credentials;
\* the other is untouched and its list_tables was refused.
C6_Witness ==
  \E s \in Sessions, t \in Sessions :
    /\ s # t
    /\ ValidConfigure(1, s)
    /\ \E q \in pending :
         /\ queries[q].session = s
         /\ queries[q].supabaseUrl = state[s].supabaseUrl.v
    /\ state[t] = initialState
    /\ \E i \in DOMAIN calls :
         IsCall(i, t, ListTablesTool) /\ calls[i].result.isError

\* C7: the session state changes only in a step that completes a successful
\* configure call of that session; every step that completes an add or a
\* list_tables call, and every step that sends a query, leaves the state of
\* all sessions unchanged.
C7_OnlyConfigureMutatesState ==
  [][/\ \A s \in Sessions :
          state'[s] # state[s]
            => /\ CallCompletes
               /\ Last(calls').session = s
               /\ Last(calls').name = ConfigureTool
               /\ ~Last(calls').result.isError
     /\ (CallCompletes /\ Last(calls').name \in {AddTool, ListTablesTool})
          => state' = state
     /\ QuerySent => state' = state]_vars

\* A configured session has completed a list_tables call that failed at the
\* backend and is still configured as the configure call left it.
C7_Witness ==
  \E s \in Sessions :
    /\ ValidConfigure(1, s)
    /\ IsCall(Len(calls), s, ListTablesTool)
    /\ Last(calls).result.isError
    /\ Len(queries) = 1
    /\ state[s] = StateOf(calls[1].input)
    /\ ~NotConfigured(state[s])

\* C8: a step that completes an add call returns Ok (never a Failure, never a
\* throw) with a text that is the decimal numeral of a + b, and sends no
\* query to the backend, in any session state.
C8_AddReturnsSum ==
  [][(CallCompletes /\ Last(calls').name = AddTool) =>
       LET c == Last(calls')
       IN  /\ ~c.result.isError
           /\ ~c.threw
           /\ IsDecimal(c.result.text)
           /\ ParseDecimal(c.result.text) = c.input.a + c.input.b
           /\ queries' = queries
           /\ pending' = pending]_vars

\* add({a: 2, b: 8}) has answered "10" in a configured session and
\* add({a: -12, b: -7}) has answered "-19" in one that is not configured.
C8_Witness ==
  \E s \in Sessions, t \in Sessions :
    /\ state[s].isConfigured
    /\ ~state[t].isConfigured
    /\ \E i \in DOMAIN calls :
         /\ IsCall(i, s, AddTool)
         /\ calls[i].input = [a |-> 2, b |-> 8]
         /\ calls[i].result = Ok(<<"1", "0">>)
    /\ \E i \in DOMAIN calls :
         /\ IsCall(i, t, AddTool)
         /\ calls[i].input = [a |-> -12, b |-> -7]
         /\ calls[i].result = Ok(<<"-", "1", "9">>)

\* C9: a step that completes a configure call whose supabaseUrl is not a
\* well-formed URL returns a Failure and leaves the state of every session,
\* isConfigured included, exactly as it was.
C9_MalformedUrlRejected ==
  [][(/\ CallCompletes
      /\ Last(calls').name = ConfigureTool
      /\ ~IsUrl(Last(calls').input.supabaseUrl.v))
       => /\ Last(calls').result.isError
          /\ state' = state]_vars

\* configure with the empty string as URL has been refused, on a session
\* that is still not configured.
C9_Witness ==
  /\ calls # <<>>
  /\ Last(calls).name = ConfigureTool
  /\ Last(calls).input.supabaseUrl = Some(<<>>)
  /\ Last(calls).result.isError
  /\ state[Last(calls).session] = initialState

\* C10: a step that completes a call of a name absent from the session's
\* registry returns a Failure, does not throw, leaves every session's state
\* unchanged and sends no query.
C10_UnknownToolFails ==
  [][(/\ CallCompletes
      /\ ~IsRegistered(registry[Last(calls').session], Last(calls').name))
       => /\ Last(calls').result.isError
          /\ ~Last(calls').threw
          /\ state' = state
          /\ queries' = queries]_vars

\* An initialized, configured session has answered a call of drop_table with
\* a Failure.
C10_Witness ==
  /\ calls # <<>>
  /\ Last(calls).name = "drop_table"
  /\ Len(registry[Last(calls).session]) = 3
  /\ Last(calls).result.isError
  /\ ~Last(calls).threw
  /\ state[Last(calls).session].isConfigured

\* ------------------------------------------- list_tables and the backend
\* The query answered in this step.
AnsweredNow == DOMAIN answers' \ DOMAIN answers

Range(seq) == {seq[i] : i \in DOMAIN seq}

\* Every character string the backend's data carries.
DataStrings(data) ==
  UNION { Range(data.rows[i].schema.v) \cup Range(data.rows[i].name.v)
            \cup Range(data.rows[i].comment.v) \cup Range(data.rows[i].owner.v)
          : i \in DOMAIN data.rows }

\* The shape as the claims word it: an array of records whose schema and name
\* are strings and whose comment is a string or null.
IsListing(data) ==
  /\ data.isArray
  /\ \A i \in DOMAIN data.rows :
       /\ data.rows[i].schema.t = "string"
       /\ data.rows[i].name.t = "string"
       /\ data.rows[i].comment.t \in {"string", "null"}

\* The same with the comment key allowed to be missing.
IsListingOrNoComment(data) ==
  /\ data.isArray
  /\ \A i \in DOMAIN data.rows :
       /\ data.rows[i].schema.t = "string"
       /\ data.rows[i].name.t = "string"
       /\ data.rows[i].comment.t \in {"string", "null", "undefined"}

\* The result is a Failure that says the output could not be parsed and
\* repeats no string of the data.
IsParseFailure(result, data) ==
  /\ result.isError
  /\ \E i \in DOMAIN result.text : result.text[i] = ParseFailureText[1]
  /\ Range(result.text) \cap DataStrings(data) = {}

\* C11 as stated: whenever the backend answers without error a value that is
\* not a sequence of {schema: string, name: string, comment: string|null}
\* records, the list_tables call returns a parse Failure without the data.
C11_NonMatchingDataFails ==
  [][\A q \in AnsweredNow :
       LET o == answers'[q]
       IN  (~o.threw /\ ~o.error.some /\ ~IsListing(o.data))
             => CallCompletes /\ IsParseFailure(Last(calls').result, o.data)]_vars

\* C11 amended: the same for a value that is not an array of records whose
\* schema and name are strings and whose comment is a string, null or
\* missing.
C11_SchemaMismatchFails ==
  [][\A q \in AnsweredNow :
       LET o == answers'[q]
       IN  (~o.threw /\ ~o.error.some /\ ~IsListingOrNoComment(o.data))
             => /\ CallCompletes
                /\ Last(calls').name = ListTablesTool
                /\ Last(calls').session = queries[q].session
                /\ IsParseFailure(Last(calls').result, o.data)]_vars

\* A configured session got a record whose name is a number and answered
\* with the parse Failure.
C11_Witness ==
  /\ Len(queries) = 1
  /\ 1 \in DOMAIN answers
  /\ answers[1] = RpcResult(FALSE, <<>>, None, InvalidData)
  /\ state[queries[1].session].isConfigured
  /\ Last(calls).name = ListTablesTool
  /\ Last(calls).result = Failure(ParseFailureText)

\* Parsing JSON text back: whitespace between tokens, strings with their
\* escapes, null, objects of string members and an array of objects.
JsonWhitespace == {"\n", "\n  ", "\n    ", " "}

RECURSIVE SkipWs(_, _)
SkipWs(text, i) ==
  IF i <= Len(text) /\ text[i] \in JsonWhitespace THEN SkipWs(text, i + 1)
  ELSE i

\* Reads the characters of a string up to its closing quote; i is past the
\* opening quote.
RECURSIVE ReadChars(_, _, _)
ReadChars(text, i, acc) ==
  IF text[i] = "\"" THEN [val |-> acc, next |-> i + 1]
  ELSE IF text[i] = "\\\"" THEN ReadChars(text, i + 1, Append(acc, "\""))
  ELSE IF text[i] = "\\\\" THEN ReadChars(text, i + 1, Append(acc, "\\"))
  ELSE ReadChars(text, i + 1, Append(acc, text[i]))

ReadValue(text, i) ==
  IF text[i] = "null" THEN [val |-> JsNull, next |-> i + 1]
  ELSE LET r == ReadChars(text, i + 1, <<>>)
       IN  [val |-> JsString(r.val), next |-> r.next]

\* Reads the members of an object into row; i is past the opening brace.
RECURSIVE ReadMembers(_, _, _)
ReadMembers(text, i, row) ==
  LET j == SkipWs(text, i)
  IN  IF text[j] = "}" THEN [val |-> row, next |-> j + 1]
      ELSE IF text[j] = "," THEN ReadMembers(text, j + 1, row)
      ELSE LET key == ReadChars(text, j + 1, <<>>)
               colon == SkipWs(text, key.next)
               value == ReadValue(text, SkipWs(text, colon + 1))
           IN  ReadMembers(text, value.next,
                           [row EXCEPT ![key.val[1]] = value.val])

\* Reads the objects of an array; i is past the opening bracket.
RECURSIVE ReadRows(_, _, _)
ReadRows(text, i, acc) ==
  LET j == SkipWs(text, i)
  IN  IF text[j] = "]" THEN acc
      ELSE IF text[j] = "," THEN ReadRows(text, j + 1, acc)
      ELSE LET r == ReadMembers(text, j + 1,
                      Row(JsUndefined, JsUndefined, JsUndefined, JsUndefined))
           IN  ReadRows(text, r.next, Append(acc, r.val))

JSONparse(text) == ReadRows(text, 2, <<>>)

\* The data is a sequence of records of exactly schema, name and comment.
IsExactListing(data) ==
  /\ IsListing(data)
  /\ \A i \in DOMAIN data.rows : data.rows[i].owner.t = "undefined"

\* C12: whenever the backend answers without error a sequence of records of
\* exactly {schema: string, name: string, comment: string|null}, the
\* list_tables call returns Ok and its text, parsed as JSON, is that
\* sequence: the same records in the same order with the same values.
C12_ValidDataRoundTrips ==
  [][\A q \in AnsweredNow :
       LET o == answers'[q]
       IN  (~o.threw /\ ~o.error.some /\ IsExactListing(o.data))
             => /\ CallCompletes
                /\ Last(calls').name = ListTablesTool
                /\ ~Last(calls').result.isError
                /\ Last(calls').result.text[1] = "["
                /\ JSONparse(Last(calls').result.text) = o.data.rows]_vars

\* Two records, one with a null comment and one whose comment holds a quote,
\* came back as Ok.
C12_Witness ==
  /\ Len(queries) = 1
  /\ 1 \in DOMAIN answers
  /\ answers[1] = RpcResult(FALSE, <<>>, None, ValidData)
  /\ Last(calls).name = ListTablesTool
  /\ ~Last(calls).result.isError
  /\ Len(JSONparse(Last(calls).result.text)) = 2

\* The text ends with the message.
EndsWith(text, message) ==
  /\ Len(text) >= Len(message)
  /\ SubSeq(text, Len(text) - Len(message) + 1, Len(text)) = message

\* C13: whenever the backend answers with an error, with or without data,
\* the list_tables call returns a Failure that carries the error's message
\* and is not the parse Failure.
C13_BackendErrorFirst ==
  [][\A q \in AnsweredNow :
       LET o == answers'[q]
       IN  (~o.threw /\ o.error.some)
             => /\ CallCompletes
                /\ Last(calls').name = ListTablesTool
                /\ Last(calls').result.isError
                /\ EndsWith(Last(calls').result.text, o.error.v)
                /\ Last(calls').result.text # ParseFailureText]_vars

\* The backend sent an error together with well-formed rows and the call
\* failed with the error's message.
C13_Witness ==
  /\ Len(queries) = 1
  /\ 1 \in DOMAIN answers
  /\ answers[1].error = Some(<<"permission denied">>)
  /\ answers[1].data = ValidData
  /\ Last(calls).name = ListTablesTool
  /\ Last(calls).result =
       Failure(<<"Failed to list tables: ", "permission denied">>)

\* C14: no completed call ends by a throw and none takes the actor out of
\* Ready or alters its registry; a query that ends by an exception makes its
\* list_tables call return a Failure; client construction never throws past
\* the handler's guard, and would end the call with a Failure if it did; and
\* after a Failure the session still takes an add call.
C14_FailuresStayInsideDispatch ==
  [][/\ CallCompletes
          => /\ ~Last(calls').threw
             /\ status'[Last(calls').session] = "Ready"
             /\ registry' = registry
     /\ \A q \in AnsweredNow :
          answers'[q].threw
            => /\ CallCompletes
               /\ Last(calls').name = ListTablesTool
               /\ Last(calls').session = queries[q].session
               /\ Last(calls').result.isError
     /\ \A s \in Sessions :
          /\ listTablesBegin(state[s]).kind # "throw"
          /\ ( /\ CallCompletes
               /\ AnsweredNow = {}
               /\ Last(calls').session = s
               /\ Last(calls').name = ListTablesTool
               /\ listTablesBegin(state[s]).kind = "throw" )
               => Last(calls').result.isError
     /\ \A i \in DOMAIN calls :
          (calls[i].result.isError /\ Room)
            => ENABLED CallAdd(calls[i].session, [a |-> 2, b |-> 8])]_vars

\* A list_tables call failed on an exception of the query, and the same
\* session then answered an add call.
C14_Witness ==
  \E s \in Sessions :
    /\ Len(calls) = 3
    /\ ValidConfigure(1, s)
    /\ IsCall(2, s, ListTablesTool)
    /\ calls[2].result = Failure(<<"Exception: ", "fetch failed">>)
    /\ IsCall(3, s, AddTool)
    /\ calls[3].result = Ok(<<"1", "0">>)
    /\ status[s] = "Ready"

\* C15: an actor's status changes only from Uninitialized to Ready, in the
\* one step that runs init(); before it the registry is empty, after it the
\* registry is exactly configure, add, list_tables, each once; and no step
\* taken by a Ready actor, whatever it does to calls or state, changes the
\* registry.
C15_InitOnceRegistryFixed ==
  [][\A s \in Sessions :
       /\ status[s] = "Uninitialized" => registry[s] = <<>>
       /\ status[s] = "Ready"
            => /\ registry[s] = <<ConfigureTool, AddTool, ListTablesTool>>
               /\ registry'[s] = registry[s]
               /\ status'[s] = "Ready"
       /\ status'[s] # status[s]
            => /\ status[s] = "Uninitialized"
               /\ status'[s] = "Ready"
               /\ registry'[s] = <<ConfigureTool, AddTool, ListTablesTool>>
               /\ calls' = calls
               /\ state' = state
       /\ (calls' # calls \/ state' # state) => registry' = registry]_vars

\* An initialised actor has taken a state update and two more calls, and
\* still holds the three tools.
C15_Witness ==
  \E s \in Sessions :
    /\ status[s] = "Ready"
    /\ Len(calls) = 3
    /\ ValidConfigure(1, s)
    /\ state[s] # initialState
    /\ \A i \in DOMAIN calls : calls[i].session = s
    /\ registry[s] = <<ConfigureTool, AddTool, ListTablesTool>>

\* C17: in every state, the stored state of a session is the initial state
\* or what one single schema-valid configure call of that session asked for,
\* and the URL and key of every query ever sent are the URL and key of one
\* single schema-valid configure call of the query's session.
C17_CredentialsFromOneConfigure ==
  /\ \A s \in Sessions :
       \/ state[s] = initialState
       \/ \E i \in DOMAIN calls :
            ValidConfigure(i, s) /\ state[s] = StateOf(calls[i].input)
  /\ \A q \in DOMAIN queries :
       \E i \in DOMAIN calls :
         /\ ValidConfigure(i, queries[q].session)
         /\ queries[q].supabaseUrl = calls[i].input.supabaseUrl.v
         /\ queries[q].supabaseKey = calls[i].input.supabaseAnonKey.v

\* A list_tables call is suspended on a query sent with the first configure
\* call's URL and key while a second configure call, with another URL and
\* another key, has completed on the same session.
C17_Witness ==
  \E s \in Sessions, q \in pending :
    /\ Len(calls) = 2
    /\ ValidConfigure(1, s)
    /\ ValidConfigure(2, s)
    /\ calls[1].input.supabaseUrl # calls[2].input.supabaseUrl
    /\ calls[1].input.supabaseAnonKey # calls[2].input.supabaseAnonKey
    /\ queries[q].session = s
    /\ queries[q].supabaseUrl = calls[1].input.supabaseUrl.v
    /\ queries[q].supabaseKey = calls[1].input.supabaseAnonKey.v
    /\ state[s] = StateOf(calls[2].input)

\* The queries of session s, and its list_tables invocations: the completed
\* ones and the ones suspended on a query.
QueriesOf(s) == {q \in DOMAIN queries : queries[q].session = s}

ListTablesInvocations(s) ==
  Cardinality({i \in DOMAIN calls : IsCall(i, s, ListTablesTool)})
    + Cardinality(QueriesOf(s) \cap pending)

\* C18: a session has sent no more queries than it has list_tables
\* invocations; a step sends at most one query and sends none while it
\* completes a call; and the step that brings a query's answer sends no
\* query and completes the list_tables call, with a Failure when the answer
\* is an exception or a backend error.
C18_OneQueryNoRetry ==
  [][/\ \A s \in Sessions : Cardinality(QueriesOf(s)) <= ListTablesInvocations(s)
     /\ \/ queries' = queries
        \/ /\ QuerySent
           /\ \A q \in DOMAIN queries : queries'[q] = queries[q]
           /\ calls' = calls
           /\ answers' = answers
     /\ \A q \in AnsweredNow :
          /\ queries' = queries
          /\ CallCompletes
          /\ IsCall(Len(calls), queries[q].session, ListTablesTool)'
          /\ (answers'[q].threw \/ answers'[q].error.some)
               => Last(calls').result.isError]_vars

\* Two list_tables invocations of one configured session have completed,
\* the first on an exception and the second on a backend error, and the
\* session has sent exactly two queries.
C18_Witness ==
  \E s \in Sessions :
    /\ Len(calls) = 3
    /\ ValidConfigure(1, s)
    /\ IsCall(2, s, ListTablesTool)
    /\ IsCall(3, s, ListTablesTool)
    /\ Len(queries) = 2
    /\ pending = {}
    /\ \E q \in DOMAIN answers : answers[q].threw
    /\ \E q \in DOMAIN answers : ~answers[q].threw /\ answers[q].error.some
    /\ calls[2].result.isError
    /\ calls[3].result.isError

\* C19: a query, once sent, keeps its session, URL and key in every later
\* step; a step that completes a configure call sends, answers and drops no
\* query; the call that a query's answer completes returns what that answer
\* alone determines, whatever the session state is by then; and a query
\* goes out with the URL and key of the configure call completed last
\* before it.
C19_InFlightQueryKeepsCredentials ==
  [][/\ \A q \in DOMAIN queries :
          q \in DOMAIN queries' /\ queries'[q] = queries[q]
     /\ (CallCompletes /\ Last(calls').name = ConfigureTool)
          => /\ queries' = queries
             /\ pending' = pending
             /\ answers' = answers
     /\ \A q \in AnsweredNow :
          /\ CallCompletes
          /\ Last(calls').result = listTablesResult(answers'[q])
     /\ QuerySent
          => /\ HasConfigure(Last(queries').session)
             /\ Last(queries').supabaseUrl
                  = LastConfigure(Last(queries').session).supabaseUrl.v
             /\ Last(queries').supabaseKey
                  = LastConfigure(Last(queries').session).supabaseAnonKey.v]_vars

\* A list_tables call returned the listing of a query sent with the first
\* configure call's URL and key, after a second configure call had replaced
\* them by an empty key.
C19_Witness ==
  \E s \in Sessions :
    /\ Len(calls) = 3
    /\ ValidConfigure(1, s)
    /\ ValidConfigure(2, s)
    /\ calls[2].input.supabaseAnonKey = Some(<<>>)
    /\ IsCall(3, s, ListTablesTool)
    /\ ~calls[3].result.isError
    /\ Len(queries) = 1
    /\ queries[1].supabaseUrl = calls[1].input.supabaseUrl.v
    /\ queries[1].supabaseKey = calls[1].input.supabaseAnonKey.v
    /\ state[s] = StateOf(calls[2].input)

\* The calls of getSupabaseClient that returned a handle, and the first one.
Returned == {i \in DOMAIN envLog : ~envLog[i].threw}

FirstReturned == CHOOSE i \in Returned : \A j \in Returned : i <= j

EnvIncomplete(env) ==
  \/ ~env.SUPABASE_URL.some \/ env.SUPABASE_URL.v = <<>>
  \/ ~env.SUPABASE_ANON_KEY.some \/ env.SUPABASE_ANON_KEY.v = <<>>

\* C20: a call of getSupabaseClient throws exactly when no earlier call has
\* returned a handle and its environment lacks the URL or the key; the
\* module-level variable is empty exactly while every call so far has
\* thrown; and every call that returns, returns the handle made from the
\* URL and key of the first call that returned, which is also the handle in
\* the variable and the one every query goes through.
C20_OneProcessWideHandle ==
  /\ \A i \in DOMAIN envLog :
       envLog[i].threw
         <=> /\ \A j \in 1..(i - 1) : envLog[j].threw
             /\ EnvIncomplete(envLog[i].env)
  /\ (supabase = NoClient) <=> (Returned = {})
  /\ Returned # {}
       => LET first == envLog[FirstReturned]
          IN  /\ first.client.supabaseUrl = first.env.SUPABASE_URL.v
              /\ first.client.supabaseKey = first.env.SUPABASE_ANON_KEY.v
              /\ supabase = first.client
              /\ \A i \in Returned : envLog[i].client = first.client
              /\ \A q \in DOMAIN queries :
                   /\ queries[q].supabaseUrl = first.client.supabaseUrl
                   /\ queries[q].supabaseKey = first.client.supabaseKey

\* The first actor's init() threw inside the factory on its incomplete
\* environment, the second actor's init() made the handle, and the first
\* actor's list_tables call, still with its incomplete environment, was
\* given that handle and sent its query through it.
C20_Witness ==
  /\ Len(envLog) = 3
  /\ envLog[1].threw
  /\ envLog[1].site = "init"
  /\ ~envLog[2].threw
  /\ envLog[3].site = "list_tables"
  /\ envLog[3].session = envLog[1].session
  /\ EnvIncomplete(envLog[3].env)
  /\ envLog[3].client = envLog[2].client
  /\ supabase = envLog[2].client
  /\ Len(queries) = 1
  /\ queries[1].supabaseUrl = envLog[2].env.SUPABASE_URL.v

====
